---- MODULE Spec2Model ----
(***************************************************************************)
(* Credential selection, rotation and recovery protocol of nation-rs       *)
(* (src/src/main.rs): the `ping` command loads the profile, finds the      *)
(* nation, sends one authenticated request, applies the response to the    *)
(* nation's Auth, optionally retries once after a rejected pin, and saves. *)
(*                                                                         *)
(* An Option<T> is a sequence of length at most one: None is <<>> and      *)
(* Some(x) is <<x>>.  Time is counted in hours.                            *)
(***************************************************************************)
EXTENDS Integers, Sequences, FiniteSets, TLC

\* ---------------------------------------------------------------- bounds
MaxOps == 2
MaxTime == 2

\* ------------------------------------------------------------- constants
PinWindow == 2
StatusOK == 200
StatusForbidden == 403

\* ------------------------------------------------------------ the domain
Procs == {"p1", "p2"}
\* The names given on the command line: nation a, and c, which no profile holds.
Targets == {"a", "c"}
Passwords == {"pw"}
OtherStatuses == {500}
None == <<>>
Some(x) == <<x>>
IsSome(o) == o # <<>>

VARIABLES
    file,       \* the profile document on disk
    now,        \* the wall clock, Utc::now()
    ops,        \* number of ping invocations started so far
    rejected,   \* pins the server has rejected as bad-pin failures
    pc,         \* per invocation: position in main
    opid,       \* per invocation: its number among the invocations
    prof,       \* per invocation: the in-memory Profile
    target,     \* per invocation: the nation name given on the command line
    nidx,       \* per invocation: index of the found nation in nations.inner
    retry_pin,  \* per invocation: the -r flag
    using_pin,  \* per invocation: send's local of the request in flight
    started,    \* per invocation: the time it loaded the profile
    attempts,   \* per invocation: the transport attempts made, in order
    responses,  \* per invocation: the responses received, one per attempt
    outcomes,   \* per invocation: what each call of send returned, in order
    loaded,     \* per invocation: the Profile as loaded at the start
    result      \* per invocation: how the process ended

vars == <<file, now, ops, rejected, pc, opid, prof, target, nidx, retry_pin,
          using_pin, started, attempts, responses, outcomes, loaded, result>>

\* ------------------------------------------------------------ data types
\* Pin (lines 18-21)
Pin(v, t) == [value |-> v, timestamp |-> t]

\* Pin::valid with the two-hour limit included.
valid_Inclusive(pin, t) == t - pin.timestamp <= PinWindow

\* Pin::valid (lines 25-27)
valid(pin, t) == t - pin.timestamp < PinWindow

\* Auth (lines 33-38)
Auth(pw, al, pin) == [password |-> pw, autologin |-> al, pin |-> pin]

\* Nation (lines 55-58)
Nation(n, a) == [name |-> n, auth |-> a]

\* Profile::default / Nations::new (lines 67-69, 133-137)
Profile_default == [nations |-> [inner |-> <<>>]]

\* ----------------------------------------------------------- persistence
\* The document on disk: absent, truncated by File::create, or written.
FileAbsent == [state |-> "absent", doc |-> [nation |-> <<>>]]
FileTruncated == [state |-> "truncated", doc |-> [nation |-> <<>>]]

\* quick_xml::se::to_writer(writer, &self.nations): the field `inner` is
\* written as the `nation` children of the root.
Serialize(nations) == [nation |-> nations.inner]

\* quick_xml::de::from_reader: the children of the root become `inner`.
Deserialize(doc) == [inner |-> doc.nation]

\* Profile::load (lines 117-126)
Profile_load(f) ==
    IF f.state = "absent" THEN [ok |-> TRUE, profile |-> Profile_default]
    ELSE IF f.state = "truncated" THEN [ok |-> FALSE, profile |-> Profile_default]
    ELSE [ok |-> TRUE, profile |-> [nations |-> Deserialize(f.doc)]]

\* iter_mut().find(|x| x.name == nation) (line 304): index of the first match, 0 if none
RECURSIVE FindFrom(_, _, _)
FindFrom(inner, name, i) ==
    IF i > Len(inner) THEN 0
    ELSE IF inner[i].name = name THEN i
    ELSE FindFrom(inner, name, i + 1)

\* find falling back on the first nation when none matches.
find_DefaultsToFirst(inner, name) ==
    IF FindFrom(inner, name, 1) = 0 /\ Len(inner) > 0 THEN 1
    ELSE FindFrom(inner, name, 1)

find(inner, name) == FindFrom(inner, name, 1)

\* ------------------------------------------------------ api::Request::send
\* The authentication header of one request; header "none" is no request at all.
Marker(h, pin, text) == [header |-> h, pin |-> pin, text |-> text]
NoMarker == Marker("none", None, None)

\* A marker as it went out at time t, and a response as it came in at time t.
Sent(m, t) == [header |-> m.header, pin |-> m.pin, text |-> m.text, at |-> t]
Received(r, t) ==
    [neterr |-> r.neterr, status |-> r.status, xpin |-> r.xpin, xauto |-> r.xauto,
     bodyOk |-> r.bodyOk, at |-> t]

\* select with autologin and password tried in the wrong order.
select_PasswordFirst(auth, t) ==
    IF IsSome(auth.pin) /\ valid(auth.pin[1], t)
    THEN Marker("X-Pin", auth.pin, None)
    ELSE IF IsSome(auth.password)
    THEN Marker("X-Password", None, auth.password)
    ELSE IF IsSome(auth.autologin)
    THEN Marker("X-Autologin", None, auth.autologin)
    ELSE NoMarker

\* select with the pin's validity left unchecked.
select_IgnoresExpiry(auth, t) ==
    IF IsSome(auth.pin)
    THEN Marker("X-Pin", auth.pin, None)
    ELSE IF IsSome(auth.autologin)
    THEN Marker("X-Autologin", None, auth.autologin)
    ELSE IF IsSome(auth.password)
    THEN Marker("X-Password", None, auth.password)
    ELSE NoMarker

\* The match on self.nation.auth (lines 249-266), evaluated at time t.
select(auth, t) ==
    IF IsSome(auth.pin) /\ valid(auth.pin[1], t)
    THEN Marker("X-Pin", auth.pin, None)
    ELSE IF IsSome(auth.autologin)
    THEN Marker("X-Autologin", None, auth.autologin)
    ELSE IF IsSome(auth.password)
    THEN Marker("X-Password", None, auth.password)
    ELSE NoMarker

\* What the transport hands back: a network error, or a status with the
\* X-Pin (already parsed) and X-Autologin headers and a body that does or
\* does not deserialize into NationData.
HttpResponse(st, xpin, xauto, bodyOk) ==
    [neterr |-> FALSE, status |-> st, xpin |-> xpin, xauto |-> xauto, bodyOk |-> bodyOk]
NetworkError ==
    [neterr |-> TRUE, status |-> 0, xpin |-> None, xauto |-> None, bodyOk |-> FALSE]

\* The responses the server can give: a pin header, when there is one,
\* carries the fresh pin value fresh.  A 200 comes with either header, both
\* or none, or with a body that is no NationData; a 403 or a 500 comes with
\* both headers or none.
Responses(fresh) ==
    {NetworkError, HttpResponse(StatusOK, None, None, FALSE)} \cup
    { HttpResponse(StatusOK, xp, xa, TRUE) :
        xp \in {None, Some(fresh)}, xa \in {None, Some("al2")} } \cup
    { HttpResponse(st, None, None, FALSE) :
        st \in {StatusForbidden} \cup OtherStatuses } \cup
    { HttpResponse(st, Some(fresh), Some("al2"), FALSE) :
        st \in {StatusForbidden} \cup OtherStatuses }

\* What send returns (Result<Response, Failure>), or a panic of one of its unwraps.
Outcome(tag, st, al, pin) == [tag |-> tag, status |-> st, autologin |-> al, pin |-> pin]
FailureNoAuth == Outcome("NoAuth", 0, None, None)

\* The 403 branch without the using_pin distinction.
forbidden_AlwaysBadAuth(usingPin) == "BadAuth"

\* The 403 branch (lines 285-286).
forbidden(usingPin) == IF usingPin THEN "BadPin" ELSE "BadAuth"

\* The timestamp taken before the request goes out.
stamp_AtSend(sentAt, recvAt) == sentAt

\* `let timestamp = Utc::now()` (line 268) comes after the await of line 267.
stamp(sentAt, recvAt) == recvAt

\* From the response to the return value (lines 267-290); t is the timestamp of line 268.
classify(resp, usingPin, t) ==
    IF resp.neterr THEN Outcome("Panic", 0, None, None)
    ELSE IF resp.status = StatusOK
    THEN IF resp.bodyOk
         THEN Outcome("Ok", resp.status, resp.xauto,
                      IF IsSome(resp.xpin) THEN Some(Pin(resp.xpin[1], t)) ELSE None)
         ELSE Outcome("Panic", resp.status, None, None)
    ELSE IF resp.status = StatusForbidden
    THEN Outcome(forbidden(usingPin), resp.status, None, None)
    ELSE Outcome("Other", resp.status, None, None)

\* ------------------------------------------------------------------- main
\* ApplyResponse with the pin assigned outside the `if let`.
ApplyResponse_AlwaysWritesPin(auth, o) ==
    LET a1 == IF IsSome(o.autologin)
              THEN [auth EXCEPT !.autologin = o.autologin, !.password = None]
              ELSE auth
    IN  [a1 EXCEPT !.pin = o.pin]

\* ApplyResponse with the password deleted outside the `if let`.
ApplyResponse_DropsPassword(auth, o) ==
    LET a1 == IF IsSome(o.autologin)
              THEN [auth EXCEPT !.autologin = o.autologin, !.password = None]
              ELSE [auth EXCEPT !.password = None]
    IN  IF IsSome(o.pin) THEN [a1 EXCEPT !.pin = o.pin] ELSE a1

\* The Ok arm of the first match (lines 318-328).
ApplyResponse(auth, o) ==
    LET a1 == IF IsSome(o.autologin)
              THEN [auth EXCEPT !.autologin = o.autologin, !.password = None]
              ELSE auth
    IN  IF IsSome(o.pin) THEN [a1 EXCEPT !.pin = o.pin] ELSE a1

\* ApplyRetryResponse without the deletion of the password.
ApplyRetryResponse_KeepsPassword(auth, o) ==
    LET a1 == IF IsSome(o.autologin)
              THEN [auth EXCEPT !.autologin = o.autologin]
              ELSE auth
    IN  IF IsSome(o.pin) THEN [a1 EXCEPT !.pin = o.pin] ELSE a1

\* The Ok arm of the retry's match (lines 339-349).
ApplyRetryResponse(auth, o) ==
    LET a1 == IF IsSome(o.autologin)
              THEN [auth EXCEPT !.autologin = o.autologin, !.password = None]
              ELSE auth
    IN  IF IsSome(o.pin) THEN [a1 EXCEPT !.pin = o.pin] ELSE a1

\* The BadPin arm with the assignment left out.
ClearPin_Forgotten(auth) == auth

\* The BadPin arm before the retry (line 333).
ClearPin(auth) == [auth EXCEPT !.pin = None]

\* The Auth of the nation this invocation works on.
AuthOf(profile, i) == profile.nations.inner[i].auth
SetAuth(profile, i, a) == [profile EXCEPT !.nations.inner[i].auth = a]

\* ---------------------------------------------------------- initial state
InitAuths ==
    { Auth(pw, al, pin) :
        pw \in {None} \cup {Some(x) : x \in Passwords},
        al \in {None, Some("al1")},
        pin \in {None, Some(Pin(1, 0))} }

InitFiles ==
    {FileAbsent} \cup
    { [state |-> "written",
       doc |-> Serialize([inner |-> <<Nation("b", Auth(Some("pw"), None, None)),
                                       Nation("a", a)>>])] :
        a \in InitAuths }

Idle(v) == [p \in Procs |-> v]

Init ==
    /\ file \in InitFiles
    /\ now = 0
    /\ ops = 0
    /\ rejected = {}
    /\ pc = Idle("idle")
    /\ opid = Idle(0)
    /\ prof = Idle(Profile_default)
    /\ target = Idle("")
    /\ nidx = Idle(0)
    /\ retry_pin = Idle(FALSE)
    /\ using_pin = Idle(FALSE)
    /\ started = Idle(0)
    /\ attempts = Idle(<<>>)
    /\ responses = Idle(<<>>)
    /\ outcomes = Idle(<<>>)
    /\ loaded = Idle(Profile_default)
    /\ result = Idle("none")

\* ---------------------------------------------------------------- actions
\* The clock advances.  An hour passes only between invocations or while a
\* request is in flight: the steps of main between two awaits take no time
\* at the clock's granularity.
Tick ==
    /\ now < MaxTime
    /\ \A p \in Procs : pc[p] \in {"idle", "await"}
    /\ now' = now + 1
    /\ UNCHANGED <<file, ops, rejected, pc, opid, prof, target, nidx, retry_pin,
                   using_pin, started, attempts, responses, outcomes, loaded, result>>

\* `nation ping [-r] <name>` up to the request (lines 300-311): load the
\* profile and find the nation.
PingLoad(p, name, retry) ==
    /\ pc[p] = "idle"
    /\ ops < MaxOps
    /\ ops' = ops + 1
    /\ opid' = [opid EXCEPT ![p] = ops + 1]
    /\ retry_pin' = [retry_pin EXCEPT ![p] = retry]
    /\ started' = [started EXCEPT ![p] = now]
    /\ target' = [target EXCEPT ![p] = name]
    /\ LET l == Profile_load(file)
           i == find(l.profile.nations.inner, name)
       IN  /\ prof' = [prof EXCEPT ![p] = l.profile]
           /\ loaded' = [loaded EXCEPT ![p] = l.profile]
           /\ nidx' = [nidx EXCEPT ![p] = IF l.ok THEN i ELSE 0]
           /\ IF ~l.ok
              THEN /\ pc' = [pc EXCEPT ![p] = "Done"]
                   /\ result' = [result EXCEPT ![p] = "ProfileError"]
              ELSE IF i = 0
              THEN /\ pc' = [pc EXCEPT ![p] = "Done"]
                   /\ result' = [result EXCEPT ![p] = "NotFound"]
              ELSE /\ pc' = [pc EXCEPT ![p] = "send"]
                   /\ result' = [result EXCEPT ![p] = "running"]
    /\ UNCHANGED <<file, now, rejected, using_pin, attempts, responses, outcomes>>

\* One invocation at a time, each one a new process.
PingSeq(name, retry) ==
    /\ \A q \in Procs : pc[q] = "idle"
    /\ PingLoad("p1", name, retry)

\* The pin value the server issues in answer to the request in flight: the
\* initial profile holds pin 1, every answer gets a value of its own.
FreshPin(p) == 2 * opid[p] + Len(attempts[p]) - 1

\* send up to the await of the transport (lines 247-267), called at line 316
\* or at line 337: pick the credential; without one, send returns NoAuth and
\* main bails (line 356 or 352).
SendRequest(p) ==
    /\ pc[p] = "send"
    /\ LET m == select(AuthOf(prof[p], nidx[p]), now)
       IN  IF m = NoMarker
           THEN /\ outcomes' = [outcomes EXCEPT ![p] = Append(@, FailureNoAuth)]
                /\ pc' = [pc EXCEPT ![p] = "Done"]
                /\ result' = [result EXCEPT ![p] = "NoAuth"]
                /\ UNCHANGED <<attempts, using_pin>>
           ELSE /\ attempts' = [attempts EXCEPT ![p] = Append(@, Sent(m, now))]
                /\ using_pin' = [using_pin EXCEPT ![p] = (m.header = "X-Pin")]
                /\ pc' = [pc EXCEPT ![p] = "await"]
                /\ UNCHANGED <<outcomes, result>>
    /\ UNCHANGED <<file, now, ops, rejected, opid, prof, target, nidx, retry_pin, started,
                   responses, loaded>>

\* after with a retry after every authentication failure.
after_RetryAnyAuthFailure(o, first, retry) ==
    IF o.tag = "Ok" THEN [pc |-> "save", result |-> "running"]
    ELSE IF o.tag \in {"BadPin", "BadAuth"}
    THEN IF retry THEN [pc |-> "send", result |-> "running"]
         ELSE [pc |-> "Done", result |-> "Ok"]
    ELSE [pc |-> "Done", result |-> o.tag]

\* after with profile.save reached from the failure arms as well.
after_SavesAfterFailure(o, first, retry) ==
    IF o.tag = "BadPin" /\ first /\ retry
    THEN [pc |-> "send", result |-> "running"]
    ELSE [pc |-> "save", result |-> "running"]

\* Where main goes once send has returned o (lines 317-357): an Ok goes on
\* to profile.save, the first BadPin goes on to the retry when -r was given
\* and otherwise falls out of the match to Ok(()), every other failure bails.
after(o, first, retry) ==
    IF o.tag = "Ok" THEN [pc |-> "save", result |-> "running"]
    ELSE IF o.tag = "BadPin" /\ first
    THEN IF retry THEN [pc |-> "send", result |-> "running"]
         ELSE [pc |-> "Done", result |-> "Ok"]
    ELSE [pc |-> "Done", result |-> o.tag]

\* handle with the pin cleared after any rejection.
handle_ClearsPinOnAnyFailure(auth, o, first) ==
    IF o.tag = "Ok"
    THEN IF first THEN ApplyResponse(auth, o) ELSE ApplyRetryResponse(auth, o)
    ELSE ClearPin(auth)

\* The Auth once main has handled o (lines 318-328, 331-333, 339-349).
handle(auth, o, first) ==
    IF o.tag = "Ok"
    THEN IF first THEN ApplyResponse(auth, o) ELSE ApplyRetryResponse(auth, o)
    ELSE IF o.tag = "BadPin" /\ first THEN ClearPin(auth)
    ELSE auth

\* The transport completes (line 267); send classifies the response (lines
\* 268-290) and main handles what send returned (lines 317-357), up to save.
ReceiveResponse(p, resp) ==
    /\ pc[p] = "await"
    /\ LET sent == attempts[p][Len(attempts[p])]
           o == classify(resp, using_pin[p], stamp(sent.at, now))
           first == Len(outcomes[p]) = 0
           nxt == after(o, first, retry_pin[p])
       IN  /\ responses' = [responses EXCEPT ![p] = Append(@, Received(resp, now))]
           /\ outcomes' = [outcomes EXCEPT ![p] = Append(@, o)]
           /\ prof' = [prof EXCEPT ![p] =
                         SetAuth(@, nidx[p], handle(AuthOf(@, nidx[p]), o, first))]
           /\ pc' = [pc EXCEPT ![p] = nxt.pc]
           /\ result' = [result EXCEPT ![p] = nxt.result]
           /\ rejected' = IF o.tag = "BadPin" THEN rejected \cup {sent.pin[1]} ELSE rejected
    /\ UNCHANGED <<file, now, ops, opid, target, nidx, retry_pin, using_pin, started, attempts,
                   loaded>>

\* Profile::save, File::create (line 128): the document is truncated.
SaveCreate(p) ==
    /\ pc[p] = "save"
    /\ file' = FileTruncated
    /\ pc' = [pc EXCEPT ![p] = "write"]
    /\ UNCHANGED <<now, ops, rejected, opid, prof, target, nidx, retry_pin, using_pin,
                   started, attempts, responses, outcomes, loaded, result>>

\* Profile::save, to_writer (line 129): the whole in-memory profile is
\* written, and main returns Ok(()).
SaveWrite(p) ==
    /\ pc[p] = "write"
    /\ file' = [state |-> "written", doc |-> Serialize(prof[p].nations)]
    /\ pc' = [pc EXCEPT ![p] = "Done"]
    /\ result' = [result EXCEPT ![p] = "Ok"]
    /\ UNCHANGED <<now, ops, rejected, opid, prof, target, nidx, retry_pin, using_pin,
                   started, attempts, responses, outcomes, loaded>>

\* The process is gone; its memory with it.
Exit(p) ==
    /\ pc[p] = "Done"
    /\ pc' = [pc EXCEPT ![p] = "idle"]
    /\ opid' = [opid EXCEPT ![p] = 0]
    /\ prof' = [prof EXCEPT ![p] = Profile_default]
    /\ target' = [target EXCEPT ![p] = ""]
    /\ nidx' = [nidx EXCEPT ![p] = 0]
    /\ retry_pin' = [retry_pin EXCEPT ![p] = FALSE]
    /\ using_pin' = [using_pin EXCEPT ![p] = FALSE]
    /\ started' = [started EXCEPT ![p] = 0]
    /\ attempts' = [attempts EXCEPT ![p] = <<>>]
    /\ responses' = [responses EXCEPT ![p] = <<>>]
    /\ outcomes' = [outcomes EXCEPT ![p] = <<>>]
    /\ loaded' = [loaded EXCEPT ![p] = Profile_default]
    /\ result' = [result EXCEPT ![p] = "none"]
    /\ UNCHANGED <<file, now, ops, rejected>>

Next ==
    \/ Tick
    \/ \E name \in Targets, retry \in BOOLEAN : PingSeq(name, retry)
    \/ \E p \in Procs : SendRequest(p)
    \/ \E p \in Procs : \E resp \in Responses(FreshPin(p)) : ReceiveResponse(p, resp)
    \/ \E p \in Procs : SaveCreate(p)
    \/ \E p \in Procs : SaveWrite(p)
    \/ \E p \in Procs : Exit(p)

Spec == Init /\ [][Next]_vars

\* ------------------------------------------------------------ vocabulary
Working(p) == pc[p] # "idle" /\ nidx[p] > 0
Last(s) == s[Len(s)]

\* The Auth of p's nation: as loaded, in memory, and on disk.
Before(p) == AuthOf(loaded[p], nidx[p])
InMemory(p) == AuthOf(prof[p], nidx[p])
Persisted(p) == AuthOf([nations |-> Deserialize(file.doc)], nidx[p])
FileWritten == file.state = "written"

HasFallback(auth) == IsSome(auth.password) \/ IsSome(auth.autologin)

\* ----------------------------------------------------------------- claims
\* C1: an invocation whose nation had a password or an autologin when the
\* profile was loaded never leaves it without one: not in memory at any
\* point, and not in the profile on disk once the invocation has ended.
C1_FallbackKept ==
    \A p \in Procs :
        (Working(p) /\ HasFallback(Before(p))) =>
            /\ HasFallback(InMemory(p))
            /\ pc[p] = "Done" => (FileWritten /\ HasFallback(Persisted(p)))

\* C1 witness: a nation that had only a password ended with only the
\* renewed autologin, saved.
C1_Witness ==
    \E p \in Procs :
        /\ pc[p] = "Done" /\ nidx[p] > 0 /\ result[p] = "Ok"
        /\ IsSome(Before(p).password) /\ Before(p).autologin = None
        /\ InMemory(p).password = None /\ InMemory(p).autologin = Some("al2")
        /\ FileWritten /\ Persisted(p) = InMemory(p)

\* C2: every transport attempt carries exactly one marker, and it is the
\* one the priority order picks from the Auth at the time of sending: the
\* pin when present and time-valid, else the autologin when present, else
\* the password when present; a password-only Auth gives the password
\* marker.  Only a send makes an attempt.
C2_MarkerByPriority ==
    [][\A p \in Procs :
        IF attempts'[p] # attempts[p] /\ pc[p] # "Done"
        THEN LET a == InMemory(p)
                 m == Last(attempts'[p])
                 pinOk == IsSome(a.pin) /\ now - a.pin[1].timestamp < PinWindow
             IN  /\ pc[p] = "send"
                 /\ attempts'[p] = Append(attempts[p], m)
                 /\ m.header \in {"X-Pin", "X-Autologin", "X-Password"}
                 /\ (m.header = "X-Pin") <=> pinOk
                 /\ (m.header = "X-Autologin") <=> (~pinOk /\ IsSome(a.autologin))
                 /\ (m.header = "X-Password") <=>
                        (~pinOk /\ a.autologin = None /\ IsSome(a.password))
                 /\ m.pin = (IF m.header = "X-Pin" THEN a.pin ELSE None)
                 /\ m.text = (IF m.header = "X-Autologin" THEN a.autologin
                              ELSE IF m.header = "X-Password" THEN a.password
                              ELSE None)
                 /\ (a.pin = None /\ a.autologin = None /\ IsSome(a.password))
                        => m.header = "X-Password"
        ELSE TRUE]_vars

\* C2 witness: an Auth holding an expired pin, an autologin and a password
\* went out with the autologin marker.
C2_Witness ==
    \E p \in Procs :
        /\ pc[p] = "await" /\ Len(attempts[p]) = 1
        /\ IsSome(InMemory(p).pin) /\ ~valid(InMemory(p).pin[1], attempts[p][1].at)
        /\ IsSome(InMemory(p).autologin) /\ IsSome(InMemory(p).password)
        /\ attempts[p][1].header = "X-Autologin"
        /\ attempts[p][1].text = InMemory(p).autologin

\* The i-th attempt of p got the answer the scenario of C3 and C4 prescribes:
\* the server rejects the pin with 403 and accepts the autologin with 200
\* and a well-formed body.
AsPrescribed(p, i) ==
    LET m == attempts[p][i]
        r == responses[p][i]
    IN  /\ m.header = "X-Pin" => (~r.neterr /\ r.status = StatusForbidden)
        /\ m.header = "X-Autologin" => (~r.neterr /\ r.status = StatusOK /\ r.bodyOk)

\* The nation was loaded with a pin that was time-valid then.
ValidPinBefore(p) == IsSome(Before(p).pin) /\ valid(Before(p).pin[1], started[p])

\* An ended invocation with -r on a valid pin the server rejects and an
\* autologin the server accepts.
C3_Scenario(p) ==
    /\ pc[p] = "Done" /\ nidx[p] > 0 /\ retry_pin[p]
    /\ ValidPinBefore(p) /\ IsSome(Before(p).autologin)
    /\ \A i \in 1..Len(responses[p]) : AsPrescribed(p, i)

C3_TwoAttemptsThenOk(p) ==
    /\ Len(attempts[p]) = 2
    /\ attempts[p][1].header = "X-Pin" /\ attempts[p][1].pin = Before(p).pin
    /\ attempts[p][2].header = "X-Autologin"
    /\ Len(outcomes[p]) = 2 /\ outcomes[p][2].tag = "Ok"
    /\ result[p] = "Ok"
    /\ FileWritten

\* C3 as claimed: in that scenario there are exactly two attempts, pin then
\* autologin, the invocation succeeds, and the saved pin field is absent.
C3_Original ==
    \A p \in Procs :
        C3_Scenario(p) => (C3_TwoAttemptsThenOk(p) /\ Persisted(p).pin = None)

\* C3 as amended: in that scenario there are exactly two attempts, pin then
\* autologin, the invocation succeeds, and the rejected pin is gone from the
\* saved profile: the saved pin is the one the accepting response renewed,
\* stamped at its receipt, and absent when that response renewed none.
C3_RetryBound ==
    \A p \in Procs :
        C3_Scenario(p) =>
            /\ C3_TwoAttemptsThenOk(p)
            /\ Persisted(p).pin # Before(p).pin
            /\ Persisted(p).pin =
                  (IF IsSome(responses[p][2].xpin)
                   THEN Some(Pin(responses[p][2].xpin[1], responses[p][2].at))
                   ELSE None)

\* C3 witness: the scenario ended, the accepting response carrying a pin.
C3_Witness ==
    \E p \in Procs :
        /\ C3_Scenario(p)
        /\ Len(responses[p]) = 2 /\ IsSome(responses[p][2].xpin)
        /\ IsSome(Persisted(p).pin)

\* C4 as claimed: without -r, a valid pin the server rejects gives exactly
\* one attempt, the invocation ends with the BadPin failure, and the pin is
\* gone from the Auth in memory.
C4_BadPinSurfaced ==
    \A p \in Procs :
        ( /\ pc[p] = "Done" /\ nidx[p] > 0 /\ ~retry_pin[p]
          /\ ValidPinBefore(p)
          /\ \A i \in 1..Len(responses[p]) : AsPrescribed(p, i) ) =>
            /\ Len(attempts[p]) = 1
            /\ result[p] = "BadPin"
            /\ InMemory(p).pin = None

\* C5 as claimed: a pin the server has rejected as a bad pin is never
\* attached to a later request, in this invocation or a later one.
C5_RejectedPinNeverReused ==
    \A p \in Procs :
        (pc[p] = "await" /\ Last(attempts[p]).header = "X-Pin") =>
            Last(attempts[p]).pin[1] \notin rejected

\* The classification of the i-th response of p, but for the 200 case.
C6_Rejections(p, i) ==
    LET m == attempts[p][i]
        r == responses[p][i]
        o == outcomes[p][i]
    IN  /\ (r.status = StatusForbidden /\ m.header = "X-Pin") => o.tag = "BadPin"
        /\ (r.status = StatusForbidden /\ m.header \in {"X-Autologin", "X-Password"})
              => o.tag = "BadAuth"
        /\ r.status \notin {StatusOK, StatusForbidden}
              => (o.tag = "Other" /\ o.status = r.status)

\* C6 as claimed: a 200 gives Success, a 403 gives BadPin after the pin
\* marker and BadAuth after the autologin or password marker, any other
\* status gives Other(status) whatever marker went out.
C6_Original ==
    \A p \in Procs : \A i \in 1..Len(responses[p]) :
        ~responses[p][i].neterr =>
            /\ responses[p][i].status = StatusOK => outcomes[p][i].tag = "Ok"
            /\ C6_Rejections(p, i)

\* C6 as amended: a 200 gives Success when its body deserializes, and
\* otherwise send panics and returns nothing; the rest as claimed.
C6_Classification ==
    \A p \in Procs : \A i \in 1..Len(responses[p]) :
        ~responses[p][i].neterr =>
            /\ (responses[p][i].status = StatusOK /\ responses[p][i].bodyOk)
                  => outcomes[p][i].tag = "Ok"
            /\ (responses[p][i].status = StatusOK /\ ~responses[p][i].bodyOk)
                  => outcomes[p][i].tag = "Panic"
            /\ C6_Rejections(p, i)

\* C6 witness: the same 403 was a BadPin after the pin marker and a BadAuth
\* after the password marker.
C6_Witness ==
    \E p \in Procs :
        /\ Len(responses[p]) = 2
        /\ attempts[p][1].header = "X-Pin" /\ responses[p][1].status = StatusForbidden
        /\ outcomes[p][1].tag = "BadPin"
        /\ attempts[p][2].header = "X-Password" /\ responses[p][2].status = StatusForbidden
        /\ outcomes[p][2].tag = "BadAuth"

\* send has returned Ok to p and main has applied it.
Succeeded(p) ==
    /\ pc[p] \in {"save", "write", "Done"}
    /\ Len(outcomes[p]) > 0
    /\ Last(outcomes[p]).tag = "Ok"

\* C7: after a Success carrying a renewed autologin, first attempt or
\* retry, the Auth has that autologin and no password, and so has the saved
\* profile once the invocation has ended.
C7_UpgradeClearsPassword ==
    \A p \in Procs :
        (Succeeded(p) /\ IsSome(Last(responses[p]).xauto)) =>
            /\ InMemory(p).autologin = Last(responses[p]).xauto
            /\ InMemory(p).password = None
            /\ pc[p] = "Done" =>
                  /\ FileWritten
                  /\ Persisted(p).autologin = Last(responses[p]).xauto
                  /\ Persisted(p).password = None

\* C7 witness: a retry succeeded with a renewed autologin on a nation that
\* held a password and another autologin.
C7_Witness ==
    \E p \in Procs :
        /\ pc[p] = "Done" /\ Succeeded(p) /\ Len(outcomes[p]) = 2
        /\ IsSome(Before(p).password)
        /\ Before(p).autologin = Some("al1")
        /\ InMemory(p).autologin = Some("al2")

\* C8: after a Success carrying a renewed pin, first attempt or retry, the
\* Auth's pin is that value with the time the response was received,
\* whatever pin there was before.
C8_PinReplaced ==
    \A p \in Procs :
        (Succeeded(p) /\ IsSome(Last(responses[p]).xpin)) =>
            /\ InMemory(p).pin =
                  Some(Pin(Last(responses[p]).xpin[1], Last(responses[p]).at))
            /\ pc[p] = "Done" => (FileWritten /\ Persisted(p).pin = InMemory(p).pin)

\* C8 witness: a request that went out with the old pin at one hour was
\* answered at a later hour with a new pin, which replaced the old one.
C8_Witness ==
    \E p \in Procs :
        /\ pc[p] = "Done" /\ Succeeded(p)
        /\ IsSome(Before(p).pin)
        /\ IsSome(Last(responses[p]).xpin)
        /\ Last(attempts[p]).at < Last(responses[p]).at
        /\ InMemory(p).pin # Before(p).pin
        /\ InMemory(p).pin[1].timestamp = Last(responses[p]).at

\* No credential of p's nation qualified when the profile was loaded.
NoCredential(p) ==
    /\ Before(p).password = None
    /\ Before(p).autologin = None
    /\ Before(p).pin = None \/ ~valid(Before(p).pin[1], started[p])

\* C9: when no credential qualifies, the invocation makes no transport
\* attempt, ends with the NoAuth failure, and leaves the Auth in memory and
\* the profile on disk as they were.
C9_NoCredentialShortCircuit ==
    \A p \in Procs :
        (Working(p) /\ NoCredential(p)) =>
            /\ attempts[p] = <<>> /\ responses[p] = <<>>
            /\ prof[p] = loaded[p]
            /\ FileWritten /\ Deserialize(file.doc) = loaded[p].nations
            /\ pc[p] \in {"send", "Done"}
            /\ pc[p] = "Done" => (result[p] = "NoAuth" /\ outcomes[p] = <<FailureNoAuth>>)

\* C9 witness: an invocation whose nation held nothing but an expired pin
\* ended with NoAuth.
C9_Witness ==
    \E p \in Procs :
        /\ pc[p] = "Done" /\ nidx[p] > 0 /\ NoCredential(p)
        /\ IsSome(Before(p).pin)
        /\ result[p] = "NoAuth"

\* The steps of one invocation once it has started.
Step(p) ==
    \/ SendRequest(p)
    \/ \E resp \in Responses(FreshPin(p)) : ReceiveResponse(p, resp)
    \/ SaveCreate(p)
    \/ SaveWrite(p)

\* A started invocation keeps running, and every request it sends is
\* answered, by a response or by a network error.
SpecFair == Spec /\ \A p \in Procs : WF_vars(Step(p))

\* At most two attempts, the second one only after a first BadPin with -r,
\* and nothing sent after the second call of send has returned.
C10_Bound ==
    \A p \in Procs :
        /\ Len(attempts[p]) <= 2
        /\ Len(outcomes[p]) <= 2
        /\ Len(attempts[p]) = 2 =>
              (retry_pin[p] /\ outcomes[p][1].tag = "BadPin")
        /\ Len(outcomes[p]) = 2 => pc[p] \in {"save", "write", "Done"}

\* C10: every invocation reaches Done, after at most two transport
\* attempts: a second attempt follows only a first attempt classified
\* BadPin with retry enabled, and no third attempt follows it.
C10_TerminatesWithinTwoAttempts ==
    /\ []C10_Bound
    /\ \A p \in Procs : (pc[p] # "idle") ~> (pc[p] = "Done")

\* C10 witness: an invocation ended after a second attempt that failed too.
C10_Witness ==
    \E p \in Procs :
        /\ pc[p] = "Done"
        /\ Len(attempts[p]) = 2
        /\ outcomes[p][1].tag = "BadPin"
        /\ outcomes[p][2].tag = "BadAuth"
        /\ result[p] = "BadAuth"

\* The profile on disk is the one p loaded.
FileAsLoaded(p) ==
    /\ file.state # "truncated"
    /\ Deserialize(file.doc) = loaded[p].nations

\* C11: when the first attempt is classified BadAuth or Other, the
\* invocation ends with that failure after that one attempt, with or
\* without -r, and the Auth is what was loaded, in memory and on disk.
C11_BadAuthUntouched ==
    \A p \in Procs :
        (Len(outcomes[p]) > 0 /\ outcomes[p][1].tag \in {"BadAuth", "Other"}) =>
            /\ pc[p] = "Done"
            /\ result[p] = outcomes[p][1].tag
            /\ Len(attempts[p]) = 1 /\ Len(outcomes[p]) = 1
            /\ prof[p] = loaded[p]
            /\ FileAsLoaded(p)

\* C11 witness: with -r, a nation holding an expired pin and a password got
\* a 403 that carried a new pin and a new autologin.
C11_Witness ==
    \E p \in Procs :
        /\ pc[p] = "Done" /\ retry_pin[p]
        /\ result[p] = "BadAuth"
        /\ IsSome(Before(p).pin)
        /\ IsSome(responses[p][1].xpin) /\ IsSome(responses[p][1].xauto)

\* C12: a pin is attached only while less than two hours old.  A pin of
\* two hours or more at the start is skipped though present: the first
\* attempt carries the autologin, else the password, else there is none and
\* the invocation ends with NoAuth; and it is never classified BadPin.
C12_ExpiredPinSkipped ==
    \A p \in Procs :
        /\ \A i \in 1..Len(attempts[p]) :
              attempts[p][i].header = "X-Pin" =>
                  attempts[p][i].at - attempts[p][i].pin[1].timestamp < PinWindow
        /\ ( /\ Working(p) /\ pc[p] # "send"
             /\ IsSome(Before(p).pin)
             /\ started[p] - Before(p).pin[1].timestamp >= PinWindow ) =>
               /\ IsSome(Before(p).autologin) =>
                     /\ attempts[p][1].header = "X-Autologin"
                     /\ attempts[p][1].text = Before(p).autologin
               /\ (Before(p).autologin = None /\ IsSome(Before(p).password)) =>
                     /\ attempts[p][1].header = "X-Password"
                     /\ attempts[p][1].text = Before(p).password
               /\ (Before(p).autologin = None /\ Before(p).password = None) =>
                     (attempts[p] = <<>> /\ result[p] = "NoAuth")
               /\ \A i \in 1..Len(outcomes[p]) : outcomes[p][i].tag # "BadPin"

\* C12 witness: a pin of exactly two hours was skipped for the password,
\* and the 403 that came back was a BadAuth.
C12_Witness ==
    \E p \in Procs :
        /\ pc[p] = "Done" /\ nidx[p] > 0
        /\ IsSome(Before(p).pin)
        /\ started[p] - Before(p).pin[1].timestamp = PinWindow
        /\ Len(attempts[p]) = 1 /\ attempts[p][1].header = "X-Password"
        /\ outcomes[p][1].tag = "BadAuth"

\* send has returned to p an Ok that renews neither autologin nor pin.
PlainSuccess(p) ==
    /\ Succeeded(p)
    /\ Last(outcomes[p]).autologin = None
    /\ Last(outcomes[p]).pin = None

\* C13 as claimed: after a Success that renews nothing, the Auth is the one
\* loaded at the start, and so is the one in the profile saved afterwards.
C13_Original ==
    \A p \in Procs :
        PlainSuccess(p) =>
            /\ InMemory(p) = Before(p)
            /\ pc[p] = "Done" => (FileWritten /\ Persisted(p) = Before(p))

\* C13 as amended: after a Success that renews nothing, the Auth is what it
\* was when that Success was applied: the one loaded at the start when the
\* first attempt succeeded, and the one loaded less its rejected pin when
\* the retry did; the profile saved afterwards holds that Auth, and every
\* other nation as loaded.
C13_PlainSuccessChangesNothing ==
    \A p \in Procs :
        PlainSuccess(p) =>
            LET expected == IF Len(outcomes[p]) = 1 THEN loaded[p]
                            ELSE SetAuth(loaded[p], nidx[p], ClearPin(Before(p)))
            IN  /\ prof[p] = expected
                /\ pc[p] = "Done" =>
                      (FileWritten /\ Deserialize(file.doc) = expected.nations)

\* C13 witness: a first attempt on a nation holding a password, an
\* autologin and a pin succeeded without renewing anything, and was saved.
C13_Witness ==
    \E p \in Procs :
        /\ pc[p] = "Done" /\ PlainSuccess(p) /\ Len(outcomes[p]) = 1
        /\ IsSome(Before(p).password) /\ IsSome(Before(p).autologin)
        /\ IsSome(Before(p).pin)
        /\ FileWritten /\ Persisted(p) = Before(p)

\* The number of usable credentials of an Auth at time t.
Count(b) == IF b THEN 1 ELSE 0
Usable(auth, t) ==
    Count(IsSome(auth.password)) + Count(IsSome(auth.autologin))
        + Count(IsSome(auth.pin) /\ valid(auth.pin[1], t))

\* What an ended invocation took away from the profile on disk.
PasswordRemoved(p) == IsSome(Before(p).password) /\ Persisted(p).password = None
PinRemoved(p) == IsSome(Before(p).pin) /\ Persisted(p).pin = None

\* C14 as claimed: the saved Auth never has fewer usable credentials than
\* the Auth that was loaded (both counted at the time of loading).
C14_Original ==
    \A p \in Procs :
        (pc[p] = "Done" /\ nidx[p] > 0 /\ FileWritten) =>
            Usable(Persisted(p), started[p]) >= Usable(Before(p), started[p])

\* C14 as amended: the saved Auth has fewer usable credentials than the
\* loaded one only by the password, deleted when a renewed autologin was
\* stored, and by the pin, removed when the server rejected it and the
\* retry succeeded without a new one; an autologin is never lost.
C14_OnlyJustifiedRemovals ==
    \A p \in Procs :
        (pc[p] = "Done" /\ nidx[p] > 0 /\ FileWritten) =>
            /\ Usable(Persisted(p), started[p]) >=
                  Usable(Before(p), started[p])
                      - Count(PasswordRemoved(p)) - Count(PinRemoved(p))
            /\ IsSome(Before(p).autologin) => IsSome(Persisted(p).autologin)
            /\ PasswordRemoved(p) =>
                  \E i \in 1..Len(outcomes[p]) :
                      /\ outcomes[p][i].tag = "Ok"
                      /\ IsSome(outcomes[p][i].autologin)
                      /\ Persisted(p).autologin = outcomes[p][i].autologin
            /\ PinRemoved(p) =>
                  /\ Len(outcomes[p]) = 2
                  /\ outcomes[p][1].tag = "BadPin"
                  /\ attempts[p][1].pin = Before(p).pin
                  /\ outcomes[p][2].tag = "Ok" /\ outcomes[p][2].pin = None

\* C14 witness: a nation loaded with password, autologin and a valid pin
\* was saved with the renewed autologin alone.
C14_Witness ==
    \E p \in Procs :
        /\ pc[p] = "Done" /\ nidx[p] > 0 /\ FileWritten
        /\ Usable(Before(p), started[p]) = 3
        /\ PasswordRemoved(p) /\ PinRemoved(p)
        /\ Usable(Persisted(p), started[p]) = 1

\* ------------------------------------------------ invocations in parallel
\* Two invocations on the same profile, each on a nation of its own.
NationOf(p) == IF p = "p1" THEN "a" ELSE "b"

InitPar ==
    /\ Init
    /\ file = [state |-> "written",
               doc |-> Serialize([inner |-> <<Nation("b", Auth(Some("pw"), None, None)),
                                               Nation("a", Auth(Some("pw"), None, None))>>])]

NextPar ==
    \/ Tick
    \/ \E p \in Procs, retry \in BOOLEAN : PingLoad(p, NationOf(p), retry)
    \/ \E p \in Procs : SendRequest(p)
    \/ \E p \in Procs : \E resp \in Responses(FreshPin(p)) : ReceiveResponse(p, resp)
    \/ \E p \in Procs : SaveCreate(p)
    \/ \E p \in Procs : SaveWrite(p)
    \/ \E p \in Procs : Exit(p)

SpecPar == InitPar /\ [][NextPar]_vars

\* C15 as claimed: when invocations on different nations run in parallel,
\* once they have all ended the profile on disk holds, for each one that
\* saved, the Auth it saved for its nation.
C15_BothUpdatesKept ==
    \A p \in Procs :
        ( /\ \A q \in Procs : pc[q] = "Done"
          /\ result[p] = "Ok" /\ Succeeded(p) ) =>
            (FileWritten /\ Persisted(p) = InMemory(p))

\* The name p was given is the name of no nation of the profile it loaded.
NameAbsent(p) ==
    /\ pc[p] # "idle"
    /\ result[p] # "ProfileError"
    /\ \A i \in 1..Len(loaded[p].nations.inner) :
          loaded[p].nations.inner[i].name # target[p]

\* C16: an invocation naming a nation the loaded profile lacks ends with
\* the not-found failure, without any attempt or call of send, without
\* changing any nation in memory, and without writing the profile.
C16_AccountNotFound ==
    \A p \in Procs :
        NameAbsent(p) =>
            /\ pc[p] = "Done" /\ result[p] = "NotFound"
            /\ attempts[p] = <<>> /\ outcomes[p] = <<>>
            /\ prof[p] = loaded[p]
            /\ FileAsLoaded(p)

\* C16 witness: an invocation named c on a profile holding a and b.
C16_Witness ==
    \E p \in Procs :
        /\ NameAbsent(p) /\ target[p] = "c"
        /\ Len(loaded[p].nations.inner) = 2
        /\ result[p] = "NotFound"

\* C17 as claimed: whenever an invocation has ended, the Auth of its
\* nation on disk is the one it had in memory.
C17_SavedBeforeEnd ==
    \A p \in Procs :
        (pc[p] = "Done" /\ nidx[p] > 0) =>
            (FileWritten /\ Persisted(p) = InMemory(p))

\* p's first attempt was a BadPin, -r was given, and the retry's send has run.
Retried(p) ==
    /\ Len(outcomes[p]) > 0 /\ outcomes[p][1].tag = "BadPin"
    /\ retry_pin[p]
    /\ pc[p] # "send"

\* C18: the retry after a BadPin leaves the pin out: it carries the
\* autologin when there is one, else the password when there is one, and
\* never the pin; with neither there is no second attempt and the
\* invocation ends with NoAuth.  The retry is never classified BadPin.
C18_RetryExcludesPin ==
    \A p \in Procs :
        Retried(p) =>
            /\ IsSome(Before(p).autologin) =>
                  /\ Len(attempts[p]) = 2
                  /\ attempts[p][2].header = "X-Autologin"
                  /\ attempts[p][2].text = Before(p).autologin
                  /\ attempts[p][2].pin = None
            /\ (Before(p).autologin = None /\ IsSome(Before(p).password)) =>
                  /\ Len(attempts[p]) = 2
                  /\ attempts[p][2].header = "X-Password"
                  /\ attempts[p][2].text = Before(p).password
                  /\ attempts[p][2].pin = None
            /\ (Before(p).autologin = None /\ Before(p).password = None) =>
                  /\ Len(attempts[p]) = 1
                  /\ outcomes[p] = <<outcomes[p][1], FailureNoAuth>>
                  /\ pc[p] = "Done" /\ result[p] = "NoAuth"
            /\ Len(outcomes[p]) = 2 => outcomes[p][2].tag # "BadPin"

\* C18 witness: a nation holding only a pin, rejected, retried into NoAuth.
C18_Witness ==
    \E p \in Procs :
        /\ Retried(p) /\ pc[p] = "Done"
        /\ Before(p).autologin = None /\ Before(p).password = None
        /\ Len(attempts[p]) = 1 /\ attempts[p][1].header = "X-Pin"
        /\ result[p] = "NoAuth"

\* --------------------------------------------------------------- crashes
\* The process dies where it stands: between two steps of main, with the
\* request in flight, or inside Profile::save between File::create (line
\* 128) and to_writer (line 129).  Nothing of the file is undone.
Crash(p) ==
    /\ pc[p] \notin {"idle", "Done"}
    /\ pc' = [pc EXCEPT ![p] = "Done"]
    /\ result' = [result EXCEPT ![p] = "Crashed"]
    /\ UNCHANGED <<file, now, ops, rejected, opid, prof, target, nidx, retry_pin,
                   using_pin, started, attempts, responses, outcomes, loaded>>

NextCrash ==
    \/ Next
    \/ \E p \in Procs : Crash(p)

SpecCrash == Init /\ [][NextCrash]_vars

\* C19 as claimed: whenever an invocation has crashed, the profile on disk
\* is a complete document, either the one the invocation loaded or the one
\* it had in memory to save, never an empty or partial one.
C19_SaveAllOrNothing ==
    \A p \in Procs :
        result[p] = "Crashed" =>
            /\ file.state # "truncated"
            /\ \/ FileAsLoaded(p)
               \/ FileWritten /\ Deserialize(file.doc) = prof[p].nations

\* None of p's attempts so far was a Success.
NoSuccess(p) ==
    /\ pc[p] # "idle"
    /\ \A i \in 1..Len(outcomes[p]) : outcomes[p][i].tag # "Ok"

\* C20: an invocation without a Success never reaches profile.save, so the
\* profile on disk stays the one it loaded, whatever the way it ends:
\* NoAuth, BadAuth, Other, a failed retry, or BadPin without -r.  What a
\* response other than a 200 carried is stored nowhere: in memory the
\* password and the autologin are the loaded ones, and the pin is the
\* loaded one or none.
C20_OnlySuccessWrites ==
    \A p \in Procs :
        NoSuccess(p) =>
            /\ pc[p] \notin {"save", "write"}
            /\ FileAsLoaded(p)
            /\ nidx[p] > 0 =>
                  /\ InMemory(p).password = Before(p).password
                  /\ InMemory(p).autologin = Before(p).autologin
                  /\ InMemory(p).pin \in {Before(p).pin, None}
                  /\ \A i \in 1..Len(prof[p].nations.inner) :
                        i # nidx[p] =>
                            prof[p].nations.inner[i] = loaded[p].nations.inner[i]

\* C20 witness: a retry that failed with a 403 carrying a new pin and a new
\* autologin; the profile on disk is the loaded one.
C20_Witness ==
    \E p \in Procs :
        /\ pc[p] = "Done" /\ NoSuccess(p) /\ nidx[p] > 0
        /\ Len(outcomes[p]) = 2 /\ outcomes[p][2].tag = "BadAuth"
        /\ IsSome(responses[p][2].xpin) /\ IsSome(responses[p][2].xauto)
        /\ IsSome(Before(p).pin) /\ InMemory(p).pin = None
        /\ FileAsLoaded(p)

====
